---- MODULE Spec2Model ----
(***************************************************************************)
(* Model of the record reconstruction parser (utils/process_pubmed.py,     *)
(* get_data) and of the text-cleaning transforms                           *)
(* (utils/cleaning_pipeline.py).                                           *)
(*                                                                         *)
(* Text is modelled as a sequence of one-character strings, so slicing,    *)
(* stripping, concatenation and regular-expression substitution are        *)
(* computed character by character, as Python computes them.               *)
(***************************************************************************)
EXTENDS Integers, Sequences, FiniteSets, TLC

VARIABLES
    \* get_data
    full_list, i, previous_content, field_previous, current_entry, df_orig,
    pc, err,
    \* get_data, history: the input lines each value was built from
    stash_src, entry_src, df_src,
    \* _correct_sentence_splitting
    sentences, si, corrected_sentences, spc,
    \* _correct_sentence_splitting, history: the merges performed
    merges,
    \* _remove_duplicates
    dtext_in, dtext, dphrases, dk, dpc,
    \* _whitespace (applied twice)
    ws_in, ws_once, ws_twice, wpc,
    \* _remove_uppercase_colon_phrases
    ct_in, ct_out, cpc

parserVars == <<full_list, i, previous_content, field_previous, current_entry,
                df_orig, pc, err, stash_src, entry_src, df_src>>
sentVars == <<sentences, si, corrected_sentences, spc, merges>>
dupVars == <<dtext_in, dtext, dphrases, dk, dpc>>
wsVars == <<ws_in, ws_once, ws_twice, wpc>>
colonVars == <<ct_in, ct_out, cpc>>
vars == <<parserVars, sentVars, dupVars, wsVars, colonVars>>

(***************************************************************************)
(* Bounds of the model.                                                    *)
(***************************************************************************)
MaxLines == 5
MaxSentences == 4
MaxDupLen == 5
MaxWsLen == 5
MaxColonLen == 4

(***************************************************************************)
(* Python string primitives.                                               *)
(***************************************************************************)
\* str.isspace / \s, restricted to the characters of the model
IsSpace(c) == c \in {" ", "\t"}

Min(a, b) == IF a < b THEN a ELSE b

\* s[a:b] with 0 <= a, 0 <= b (Python slice, clipped to the string)
Slice(s, a, b) == SubSeq(s, a + 1, Min(b, Len(s)))

\* s[a:]
SliceFrom(s, a) == SubSeq(s, a + 1, Len(s))

RECURSIVE LStrip(_)
LStrip(s) == IF s # <<>> /\ IsSpace(Head(s)) THEN LStrip(Tail(s)) ELSE s

RECURSIVE RStrip(_)
RStrip(s) ==
    IF s # <<>> /\ IsSpace(s[Len(s)]) THEN RStrip(SubSeq(s, 1, Len(s) - 1)) ELSE s

\* str.strip()
Strip(s) == RStrip(LStrip(s))

\* all sequences over alphabet A of length at most n
RECURSIVE SeqsUpTo(_, _)
SeqsUpTo(A, n) ==
    IF n = 0 THEN {<<>>}
    ELSE LET R == SeqsUpTo(A, n - 1)
         IN  R \cup {Append(r, a) : r \in {x \in R : Len(x) = n - 1}, a \in A}


(***************************************************************************)
(* get_data (utils/process_pubmed.py): inputs.                             *)
(***************************************************************************)
\* A raw line: a missing value (NaN, the blank separator) or a text.
NaN == [na |-> TRUE, s |-> <<>>]
Str(t) == [na |-> FALSE, s |-> t]

\* pd.isna
isna(x) == x.na

\* "The longest possible field name is 4 characters long": field[0:4]
TagWidth == 4
\* full_list[i][5:]
ContentStart == 5

TAG_PMID == <<"P","M","I","D">>
TAG_TI == <<"T","I">>

\* the field-tag dictionary, in insertion order: <<key, tag>>
field_dict == << <<"id", TAG_PMID>>, <<"title", TAG_TI>> >>

\* field_dict.values()
DictValues == {field_dict[j][2] : j \in DOMAIN field_dict}

\* field_dict.keys()
DictKeys == {field_dict[j][1] : j \in DOMAIN field_dict}

L_PMID123 == Str(<<"P","M","I","D","-"," ","1","2","3">>)
L_TITLE == Str(<<"T","I"," "," ","-"," ","A"," ","T","i","t","l","e">>)
L_PMID456 == Str(<<"P","M","I","D","-"," ","4","5","6">>)
L_SECOND == Str(<<"T","I"," "," ","-"," ","S","e","c","o","n","d">>)
L_CONTINUED == Str(<<" "," "," "," "," "," ","c","o","n","t","i","n","u","e","d">>)
L_TI_EMPTY == Str(<<"T","I"," "," ","-">>)
L_SPACES == Str(<<" "," ">>)

\* the lines the bounded inputs are drawn from
Lines == {NaN, L_PMID123, L_SECOND, L_CONTINUED, L_TI_EMPTY, L_SPACES}

\* the 7-line input of the end-to-end example
ExampleLines ==
    <<L_PMID123, L_TITLE, NaN, L_PMID456, L_SECOND, L_CONTINUED, NaN>>

ParserInputs == (SeqsUpTo(Lines, MaxLines) \ {<<>>}) \cup {ExampleLines}

\* the local variable field_previous before its first assignment
Unbound == <<"<unbound>">>

EmptyEntry == [k \in {} |-> <<>>]

\* d[k] = v on a dict
Put(d, k, v) == [x \in (DOMAIN d) \cup {k} |-> IF x = k THEN v ELSE d[x]]

(***************************************************************************)
(* get_data: the values one loop iteration computes (lines 14-35).         *)
(* i is 0-based as in the source; full_list[i] is Line(i).                 *)
(***************************************************************************)
lenX == Len(full_list)

Line(n) == full_list[n + 1]

\* line 20: the record is complete on a missing line or on the last line
new_entry == isna(Line(i)) \/ i = lenX - 1

\* the tag candidate of a text line: line[0:4].strip()
TagOf(x) == Strip(Slice(x.s, 0, TagWidth))

\* lines 20-25
field == IF new_entry THEN <<>> ELSE TagOf(Line(i))

\* lines 27-35
field_next ==
    IF i + 1 < lenX
    THEN IF isna(Line(i + 1)) THEN <<>> ELSE TagOf(Line(i + 1))
    ELSE <<>>

\* full_list[i][5:].strip()
TagContent(x) == Strip(SliceFrom(x.s, ContentStart))

\* list(field_dict.keys())[list(field_dict.values()).index(tag)]
KeyOf(tag) ==
    LET j == CHOOSE n \in DOMAIN field_dict :
                 /\ field_dict[n][2] = tag
                 /\ \A m \in 1..(n - 1) : field_dict[m][2] # tag
    IN  field_dict[j][1]

JoinNoSpace(a, b) == a \o b

\* previous_content + " " + content
JoinSpace(a, b) == a \o <<" ">> \o b

StripNeverRaises(x) == FALSE

\* line 88: full_list[i].strip() raises AttributeError exactly when the row
\* is a missing value (a float has no strip)
StripRaises(x) == isna(x)

\* lines 93-94: from_dict(current_entry, orient='index').transpose() has one
\* row when the dict has keys and is the empty 0x0 frame when it has none,
\* so concat adds a row only for a non-empty dict
Concat(df, entry) == IF DOMAIN entry = {} THEN df ELSE Append(df, entry)


(***************************************************************************)
(* get_data: one action per branch of the loop body (lines 37-90), each    *)
(* followed by the record completion and the increment (lines 92-98).      *)
(***************************************************************************)
InLoop == pc = "loop" /\ i < lenX

\* lines 92-98, given the accumulator the branch leaves
EndIteration(entry, esrc) ==
    /\ IF new_entry
       THEN /\ df_orig' = Concat(df_orig, entry)
            /\ df_src' = IF DOMAIN entry = {} THEN df_src
                         ELSE Append(df_src, [at |-> i, src |-> esrc])
            /\ current_entry' = EmptyEntry
            /\ entry_src' = EmptyEntry
       ELSE /\ current_entry' = entry
            /\ entry_src' = esrc
            /\ UNCHANGED <<df_orig, df_src>>
    /\ i' = i + 1
    /\ UNCHANGED <<full_list, pc, err>>

\* an uncaught exception ends the call; nothing is returned
Raise(e) ==
    /\ pc' = "error"
    /\ err' = e
    /\ UNCHANGED <<full_list, i, previous_content, field_previous,
                   current_entry, df_orig, stash_src, entry_src, df_src>>

\* lines 37-50: the current row and the next row both hold a field name
BothTags ==
    /\ InLoop
    /\ field \in DictValues /\ field_next \in DictValues
    /\ LET content == TagContent(Line(i))
           temp == KeyOf(field)
       IN  EndIteration(Put(current_entry, temp, Strip(content)),
                        Put(entry_src, temp, {i}))
    /\ UNCHANGED <<previous_content, field_previous, stash_src>>
    /\ UNCHANGED <<sentVars, dupVars, wsVars, colonVars>>

\* lines 52-64: the current row holds a field name, the next row does not
TagThenContent ==
    /\ InLoop
    /\ field \in DictValues /\ field_next \notin DictValues
    /\ previous_content' = TagContent(Line(i))
    /\ field_previous' = field
    /\ stash_src' = {i}
    /\ IF i + 1 = lenX
       THEN LET temp == KeyOf(field)
            IN  EndIteration(
                    Put(current_entry, temp, Strip(TagContent(Line(i)))),
                    Put(entry_src, temp, {i}))
       ELSE EndIteration(current_entry, entry_src)
    /\ UNCHANGED <<sentVars, dupVars, wsVars, colonVars>>

\* lines 66-82: the current row holds no field name, the next row does
ContentThenTag ==
    /\ InLoop
    /\ field \notin DictValues /\ field_next \in DictValues
    /\ IF field_previous = Unbound
       THEN Raise("UnboundLocalError")
       ELSE LET content == IF isna(Line(i)) THEN <<>> ELSE Strip(Line(i).s)
                merged == JoinSpace(previous_content, content)
                temp == KeyOf(field_previous)
            IN  /\ EndIteration(Put(current_entry, temp, Strip(merged)),
                                Put(entry_src, temp, stash_src \cup {i}))
                /\ UNCHANGED <<previous_content, field_previous, stash_src>>
    /\ UNCHANGED <<sentVars, dupVars, wsVars, colonVars>>

\* lines 84-90: neither row holds a field name; full_list[i].strip() is
\* called on the row whatever it is, and a missing value (a float) has no
\* strip
ContentThenContent ==
    /\ InLoop
    /\ field \notin DictValues /\ field_next \notin DictValues
    /\ IF StripRaises(Line(i))
       THEN Raise("AttributeError")
       ELSE /\ previous_content' = JoinSpace(previous_content, Strip(Line(i).s))
            /\ stash_src' = stash_src \cup {i}
            /\ EndIteration(current_entry, entry_src)
            /\ UNCHANGED field_previous
    /\ UNCHANGED <<sentVars, dupVars, wsVars, colonVars>>

\* line 100
Return ==
    /\ pc = "loop" /\ i >= lenX
    /\ pc' = "done"
    /\ UNCHANGED <<full_list, i, previous_content, field_previous,
                   current_entry, df_orig, err, stash_src, entry_src,
                   df_src>>
    /\ UNCHANGED <<sentVars, dupVars, wsVars, colonVars>>

\* lines 5-12; the other functions are not running
InitParser ==
    /\ full_list \in ParserInputs
    /\ i = 0
    /\ previous_content = <<>>
    /\ field_previous = Unbound
    /\ current_entry = EmptyEntry
    /\ df_orig = <<>>
    /\ pc = "loop"
    /\ err = "none"
    /\ stash_src = {}
    /\ entry_src = EmptyEntry
    /\ df_src = <<>>
    /\ sentences = <<>> /\ si = 0 /\ corrected_sentences = <<>>
    /\ spc = "idle" /\ merges = 0
    /\ dtext_in = <<>> /\ dtext = <<>> /\ dphrases = <<>> /\ dk = 0
    /\ dpc = "idle"
    /\ ws_in = <<>> /\ ws_once = <<>> /\ ws_twice = <<>> /\ wpc = "idle"
    /\ ct_in = <<>> /\ ct_out = <<>> /\ cpc = "idle"

NextParser ==
    \/ BothTags
    \/ TagThenContent
    \/ ContentThenTag
    \/ ContentThenContent
    \/ Return

SpecParser == InitParser /\ [][NextParser]_vars


(***************************************************************************)
(* get_data: what the claims speak of.                                     *)
(***************************************************************************)
\* a text line whose first four characters, trimmed, are a recognized tag
IsTagLine(x) == ~isna(x) /\ TagOf(x) \in DictValues

\* a text line without a recognized tag
IsContinuation(x) == ~isna(x) /\ TagOf(x) \notin DictValues

\* the positions at which a record is complete
CompletionPositions(lines) ==
    {p \in 0..(Len(lines) - 1) : isna(lines[p + 1]) \/ p = Len(lines) - 1}

\* one or more records, each of them tag lines with their continuation
\* lines, each of them closed by a missing line
WellFormed(lines) ==
    /\ Len(lines) >= 2
    /\ IsTagLine(lines[1])
    /\ isna(lines[Len(lines)])
    /\ \A p \in 1..(Len(lines) - 1) : isna(lines[p]) => IsTagLine(lines[p + 1])

\* the table the records of a well-formed input describe: a row per record,
\* a field per tag line, its content joined with its continuation lines
RECURSIVE RowsOf(_, _, _, _)
RowsOf(lines, rows, entry, key) ==
    IF lines = <<>> THEN rows
    ELSE LET x == Head(lines)
         IN  IF isna(x)
             THEN RowsOf(Tail(lines), Append(rows, entry), EmptyEntry, key)
             ELSE IF IsTagLine(x)
             THEN RowsOf(Tail(lines), rows,
                         Put(entry, KeyOf(TagOf(x)), TagContent(x)),
                         KeyOf(TagOf(x)))
             ELSE RowsOf(Tail(lines), rows,
                         Put(entry, key, entry[key] \o <<" ">> \o Strip(x.s)),
                         key)

ExpectedTable(lines) == RowsOf(lines, <<>>, EmptyEntry, "none")

ExampleTable ==
    << [id |-> <<"1","2","3">>, title |-> <<"A"," ","T","i","t","l","e">>],
       [id |-> <<"4","5","6">>,
        title |-> <<"S","e","c","o","n","d"," ",
                    "c","o","n","t","i","n","u","e","d">>] >>

\* C1: for a well-formed input (records closed by a missing line, the last
\* one included) the call returns, and the returned table is one row per
\* record, in order, each field key mapped to its joined content; the
\* 7-line example returns the two rows of ExampleTable.
C1_EndToEnd ==
    /\ WellFormed(full_list) =>
          /\ pc # "error"
          /\ pc = "done" => df_orig = ExpectedTable(full_list)
    /\ ExpectedTable(ExampleLines) = ExampleTable

\* the row appended last
LastRow == df_orig[Len(df_orig)]

\* C2: when the input ends, without a trailing missing line, on a tag line
\* or on the continuation of the tag line before it, the row appended last
\* holds that field with its whole content.
C2_LastFieldFlushed ==
    pc = "done" =>
        LET last == full_list[lenX]
        IN  /\ IsTagLine(last) =>
                  /\ df_orig # <<>>
                  /\ KeyOf(TagOf(last)) \in DOMAIN LastRow
                  /\ LastRow[KeyOf(TagOf(last))] = TagContent(last)
            /\ (lenX >= 2 /\ IsContinuation(last)
                  /\ IsTagLine(full_list[lenX - 1])) =>
                  LET key == KeyOf(TagOf(full_list[lenX - 1]))
                  IN  /\ df_orig # <<>>
                      /\ key \in DOMAIN LastRow
                      /\ LastRow[key] =
                            Strip(TagContent(full_list[lenX - 1])
                                  \o <<" ">> \o Strip(last.s))

\* C3: a row is appended at every position that is a missing line or the
\* last line, and at no other: the parser never stops on a missing line,
\* and after i positions the table has grown by one row for each completion
\* position among them.
C3_RowPerCompletion ==
    /\ pc = "error" => ~isna(Line(i))
    /\ pc \in {"loop", "done"} =>
          Len(df_orig) =
              Cardinality({p \in CompletionPositions(full_list) : p < i})

\* C4: every reverse lookup is made with a tag of the dictionary; the
\* pending field key is set before it is read, so no exception is raised.
C4_LookupGuarded == err # "UnboundLocalError"


\* the texts of xs joined by single spaces
RECURSIVE JoinAll(_)
JoinAll(xs) ==
    IF Len(xs) = 1 THEN xs[1]
    ELSE JoinAll(SubSeq(xs, 1, Len(xs) - 1)) \o <<" ">> \o xs[Len(xs)]

\* the content of the tag line at position p followed by the trimmed texts
\* of the lines p+1 .. j
WrappedParts(p, j) ==
    <<TagContent(Line(p))>> \o [n \in 1..(j - p) |-> Strip(Line(p + n).s)]

\* position p holds a tag line followed by k >= 1 continuation lines and
\* then by a tag line or a missing line, none of them the last line
WrappedField(p, k) ==
    /\ k >= 1
    /\ p + k + 1 < lenX - 1
    /\ IsTagLine(Line(p))
    /\ \A n \in 1..k : IsContinuation(Line(p + n))
    /\ IsTagLine(Line(p + k + 1)) \/ isna(Line(p + k + 1))

\* the position at which the wrapped field is written: its last
\* continuation line when a tag line follows, else the missing line
WritePosition(p, k) == IF IsTagLine(Line(p + k + 1)) THEN p + k ELSE p + k + 1

\* C9: for a tag line followed by k >= 1 continuation lines and then by a
\* tag line or a missing line (none of them the last line), the stash grows
\* by one trimmed line, after a single space, at each continuation line that
\* is not followed by a tag, and the value written under the tag's key (at
\* the line before the next tag) is the tag line's content and the trimmed
\* continuation lines joined by single spaces, stripped.
C9_WrappedFieldMerge ==
    \A p \in 0..(lenX - 1) : \A k \in 1..(lenX - 1) :
        WrappedField(p, k) =>
            LET w == WritePosition(p, k)
                key == KeyOf(TagOf(Line(p)))
                value == Strip(JoinAll(WrappedParts(p, p + k)))
            IN  /\ \A j \in p..(w - 1) :
                      (i = j + 1 /\ ~isna(Line(j))) =>
                          /\ previous_content = JoinAll(WrappedParts(p, j))
                          /\ field_previous = TagOf(Line(p))
                /\ (i = w + 1 /\ ~isna(Line(w))) =>
                      /\ key \in DOMAIN current_entry
                      /\ current_entry[key] = value
                /\ (i = w + 1 /\ isna(Line(w))) =>
                      /\ df_orig # <<>>
                      /\ key \in DOMAIN LastRow
                      /\ LastRow[key] = value

\* a field wrapped over two continuation lines has just been written
C9_Witness ==
    \E p \in 0..(lenX - 1) :
        /\ WrappedField(p, 2)
        /\ i = WritePosition(p, 2) + 1
        /\ pc = "loop"
        /\ TagContent(Line(p)) # <<>>

\* the first position of the block that position p lies in
BlockStart(p) ==
    LET before == {q \in 0..(p - 1) : isna(Line(q))}
    IN  IF before = {} THEN 0
        ELSE 1 + CHOOSE q \in before : \A r \in before : r <= q

\* C10: the accumulator is empty at the start of each block, and in a run
\* that completes every value of an appended row is built only from lines
\* of the row's own block.
C10_RecordIsolation ==
    /\ (InLoop /\ BlockStart(i) = i) => current_entry = EmptyEntry
    /\ pc = "done" =>
          \A r \in DOMAIN df_src : \A key \in DOMAIN df_src[r].src :
              \A q \in df_src[r].src[key] :
                  BlockStart(df_src[r].at) <= q /\ q <= df_src[r].at

\* a completed run whose second row holds a field wrapped over two or more
\* lines, appended after an earlier record left its text in the stash
C10_Witness ==
    /\ pc = "done"
    /\ Len(df_src) >= 2
    /\ \E key \in DOMAIN df_src[2].src : Cardinality(df_src[2].src[key]) >= 2


(***************************************************************************)
(* _correct_sentence_splitting (utils/cleaning_pipeline.py, lines 196-232) *)
(***************************************************************************)
S_FIG == <<"F","i","g">>
S_COMMA3 == <<","," ","3">>
S_TWO_WORDS == <<"a"," ","b">>
S_FIG_PADDED == <<" ","F","i","g"," ">>
S_COMMA_PADDED == <<" ",",","x"," ">>
S_COMMA == <<",">>
S_SHOWS == <<","," ","3"," ","s","h","o","w","s"," ","t","h","e"," ","r","e","s","u","l","t",".">>
S_MERGED == <<"F","i","g",","," ","3"," ","s","h","o","w","s"," ","t","h","e"," ","r","e","s","u","l","t",".">>

\* the sentences the bounded inputs are drawn from
SentenceSet ==
    {S_FIG, S_COMMA3, S_TWO_WORDS, S_FIG_PADDED, S_COMMA_PADDED, S_COMMA, <<>>}

ExampleSentences == <<S_FIG, S_SHOWS>>

SentenceInputs == SeqsUpTo(SentenceSet, MaxSentences) \cup {ExampleSentences}

\* s.count(' ')
CountSpaces(t) == Cardinality({n \in DOMAIN t : t[n] = " "})

\* s.startswith(',')
StartsWithComma(t) == t # <<>> /\ t[1] = ","

\* sentences[n], n 0-based
Sentence(n) == sentences[n + 1]

MergeAnyCommaClause(cur, nxt) == StartsWithComma(nxt)

\* line 216, on the trimmed sentences
ShouldMerge(cur, nxt) == CountSpaces(cur) = 0 /\ StartsWithComma(nxt)

\* lines 211-222: the current sentence is a single word and the next one
\* starts with a comma
MergeSentences ==
    /\ spc = "loop" /\ si < Len(sentences) - 1
    /\ LET current_sentence == Strip(Sentence(si))
           next_sentence == Strip(Sentence(si + 1))
       IN  /\ ShouldMerge(current_sentence, next_sentence)
           /\ corrected_sentences' =
                  Append(corrected_sentences, current_sentence \o next_sentence)
           /\ si' = si + 2
    /\ merges' = merges + 1
    /\ UNCHANGED <<sentences, spc>>
    /\ UNCHANGED <<parserVars, dupVars, wsVars, colonVars>>

\* lines 211-216, 224-226
KeepSentence ==
    /\ spc = "loop" /\ si < Len(sentences) - 1
    /\ LET current_sentence == Strip(Sentence(si))
           next_sentence == Strip(Sentence(si + 1))
       IN  /\ ~ShouldMerge(current_sentence, next_sentence)
           /\ corrected_sentences' = Append(corrected_sentences, current_sentence)
           /\ si' = si + 1
    /\ UNCHANGED <<sentences, spc, merges>>
    /\ UNCHANGED <<parserVars, dupVars, wsVars, colonVars>>

ReturnAlwaysAddsLast ==
    /\ spc = "loop" /\ ~(si < Len(sentences) - 1)
    /\ corrected_sentences' =
           IF sentences # <<>>
           THEN Append(corrected_sentences, Strip(sentences[Len(sentences)]))
           ELSE corrected_sentences
    /\ spc' = "done"
    /\ UNCHANGED <<sentences, si, merges>>
    /\ UNCHANGED <<parserVars, dupVars, wsVars, colonVars>>

\* lines 228-232: the loop is over; the last sentence is added when the
\* loop did not consume it
ReturnSentences ==
    /\ spc = "loop" /\ ~(si < Len(sentences) - 1)
    /\ corrected_sentences' =
           IF si < Len(sentences)
           THEN Append(corrected_sentences, Strip(Sentence(si)))
           ELSE corrected_sentences
    /\ spc' = "done"
    /\ UNCHANGED <<sentences, si, merges>>
    /\ UNCHANGED <<parserVars, dupVars, wsVars, colonVars>>

\* lines 208-209; the other functions are not running
InitSentences ==
    /\ sentences \in SentenceInputs
    /\ si = 0
    /\ corrected_sentences = <<>>
    /\ spc = "loop"
    /\ merges = 0
    /\ full_list = <<>> /\ i = 0 /\ previous_content = <<>>
    /\ field_previous = Unbound /\ current_entry = EmptyEntry
    /\ df_orig = <<>> /\ pc = "idle" /\ err = "none"
    /\ stash_src = {} /\ entry_src = EmptyEntry /\ df_src = <<>>
    /\ dtext_in = <<>> /\ dtext = <<>> /\ dphrases = <<>> /\ dk = 0
    /\ dpc = "idle"
    /\ ws_in = <<>> /\ ws_once = <<>> /\ ws_twice = <<>> /\ wpc = "idle"
    /\ ct_in = <<>> /\ ct_out = <<>> /\ cpc = "idle"

NextSentences == MergeSentences \/ KeepSentence \/ ReturnSentences

SpecSentences == InitSentences /\ [][NextSentences]_vars

\* the call runs to its end: a loop iteration or the return is always taken
SpecSentencesFair == SpecSentences /\ WF_vars(NextSentences)

\* the list the claim describes: a left-to-right scan in which a trimmed
\* single word followed by a trimmed comma clause becomes one sentence and
\* the scan resumes after the pair; every other sentence is emitted trimmed
RECURSIVE MergedScan(_)
MergedScan(ss) ==
    IF ss = <<>> THEN <<>>
    ELSE IF /\ Len(ss) >= 2
            /\ \A n \in DOMAIN Strip(ss[1]) : Strip(ss[1])[n] # " "
            /\ Strip(ss[2]) # <<>> /\ Head(Strip(ss[2])) = ","
         THEN <<Strip(ss[1]) \o Strip(ss[2])>> \o MergedScan(Tail(Tail(ss)))
         ELSE <<Strip(ss[1])>> \o MergedScan(Tail(ss))

UpperCase == <<"A","B","C","D","E","F","G","H","I","J","K","L","M","N","O","P","Q","R","S","T","U","V","W","X","Y","Z">>
LowerCase == <<"a","b","c","d","e","f","g","h","i","j","k","l","m","n","o","p","q","r","s","t","u","v","w","x","y","z">>

\* case folding of re.IGNORECASE
Lower(c) ==
    IF \E n \in DOMAIN UpperCase : UpperCase[n] = c
    THEN LowerCase[CHOOSE n \in DOMAIN UpperCase : UpperCase[n] = c]
    ELSE c

EqIgnoreCase(a, b) ==
    Len(a) = Len(b) /\ \A n \in DOMAIN a : Lower(a[n]) = Lower(b[n])

\* the text matches g, ignoring case, at position p (1-based)
MatchesAt(t, p, g) ==
    /\ p + Len(g) - 1 <= Len(t)
    /\ EqIgnoreCase(SubSeq(t, p, p + Len(g) - 1), g)

\* the length of the run of whitespace that starts at position q
RECURSIVE SpaceRun(_, _)
SpaceRun(t, q) ==
    IF q <= Len(t) /\ IsSpace(t[q]) THEN 1 + SpaceRun(t, q + 1) ELSE 0

\* (phrase)\s*\1 at position p: the position after the match, or 0 when
\* there is none; \s* is greedy and gives back what \1 needs
DupMatchEnd(t, p, phrase) ==
    IF ~MatchesAt(t, p, phrase) THEN 0
    ELSE LET n == Len(phrase)
             group == SubSeq(t, p, p + n - 1)
             ks == {k \in 0..SpaceRun(t, p + n) : MatchesAt(t, p + n + k, group)}
         IN  IF ks = {} THEN 0
             ELSE p + n + (CHOOSE k \in ks : \A m \in ks : m <= k) + n

\* pattern.sub(r'\1', text): leftmost matches, not overlapping, one pass
RECURSIVE SubDupFrom(_, _, _)
SubDupFrom(t, p, phrase) ==
    IF p > Len(t) THEN <<>>
    ELSE LET e == DupMatchEnd(t, p, phrase)
         IN  IF e # 0
             THEN SubSeq(t, p, p + Len(phrase) - 1) \o SubDupFrom(t, e, phrase)
             ELSE <<t[p]>> \o SubDupFrom(t, p + 1, phrase)

\* lines 103-106
SubDuplicates(t, phrase) == SubDupFrom(t, 1, phrase)

DupAlphabet == {"o", "O", " ", "x"}
P_O == <<"o">>
P_OX == <<"O", "x">>
T_OREGON == <<"O","r","e","g","o","n">>
T_OREGON3 == <<"O","r","e","g","o","n"," ","O","r","e","g","o","n"," ","O","r","e","g","o","n">>

\* replacement_dict.values(), in order
PhraseLists == {<<P_O>>, <<P_OX>>, <<P_O, P_OX>>, <<P_OX, P_O>>}

\* the calls: <<text, replacement_dict.values()>>
DuplicateInputs ==
    (SeqsUpTo(DupAlphabet, MaxDupLen) \X PhraseLists)
        \cup {<<T_OREGON3, <<T_OREGON>>>>}

\* line 100: one pass of the loop over the phrases
ApplyPhrase ==
    /\ dpc = "loop" /\ dk < Len(dphrases)
    /\ dtext' = SubDuplicates(dtext, dphrases[dk + 1])
    /\ dk' = dk + 1
    /\ UNCHANGED <<dtext_in, dphrases, dpc>>
    /\ UNCHANGED <<parserVars, sentVars, wsVars, colonVars>>

\* line 108
ReturnDuplicates ==
    /\ dpc = "loop" /\ dk = Len(dphrases)
    /\ dpc' = "done"
    /\ UNCHANGED <<dtext_in, dtext, dphrases, dk>>
    /\ UNCHANGED <<parserVars, sentVars, wsVars, colonVars>>

\* the call _remove_duplicates(text, replacement_dict); the other
\* functions are not running
InitDuplicates ==
    /\ \E input \in DuplicateInputs :
           dtext_in = input[1] /\ dphrases = input[2]
    /\ dtext = dtext_in
    /\ dk = 0
    /\ dpc = "loop"
    /\ full_list = <<>> /\ i = 0 /\ previous_content = <<>>
    /\ field_previous = Unbound /\ current_entry = EmptyEntry
    /\ df_orig = <<>> /\ pc = "idle" /\ err = "none"
    /\ stash_src = {} /\ entry_src = EmptyEntry /\ df_src = <<>>
    /\ sentences = <<>> /\ si = 0 /\ corrected_sentences = <<>>
    /\ spc = "idle" /\ merges = 0
    /\ ws_in = <<>> /\ ws_once = <<>> /\ ws_twice = <<>> /\ wpc = "idle"
    /\ ct_in = <<>> /\ ct_out = <<>> /\ cpc = "idle"

NextDuplicates == ApplyPhrase \/ ReturnDuplicates

SpecDuplicates == InitDuplicates /\ [][NextDuplicates]_vars

\* the text holds the phrase twice in a row, ignoring case, the two copies
\* adjacent or separated by whitespace only
HasRepeat(t, phrase) ==
    \E p \in 1..Len(t) : \E k \in 0..Len(t) :
        LET n == Len(phrase)
        IN  /\ p + 2 * n + k - 1 <= Len(t)
            /\ EqIgnoreCase(SubSeq(t, p, p + n - 1), phrase)
            /\ \A q \in (p + n)..(p + n + k - 1) : IsSpace(t[q])
            /\ EqIgnoreCase(SubSeq(t, p + n + k, p + 2 * n + k - 1), phrase)

\* C6: the returned text holds no immediately repeated occurrence of any
\* phrase of the dictionary, however often the phrase was repeated in the
\* input.
C6_NoRepeatLeft ==
    dpc = "done" => \A n \in DOMAIN dphrases : ~HasRepeat(dtext, dphrases[n])


(***************************************************************************)
(* _whitespace (utils/cleaning_pipeline.py, lines 319-343)                 *)
(***************************************************************************)
\* p_hyphen.sub(' ', text): each "--", leftmost first, becomes one space
RECURSIVE SubHyphens(_)
SubHyphens(t) ==
    IF t = <<>> THEN <<>>
    ELSE IF Len(t) >= 2 /\ t[1] = "-" /\ t[2] = "-"
         THEN <<" ">> \o SubHyphens(SubSeq(t, 3, Len(t)))
         ELSE <<t[1]>> \o SubHyphens(Tail(t))

\* re.sub(p_b, ' ', text): each maximal run of two or more whitespace
\* characters becomes one space; a single whitespace character stays
RECURSIVE CollapseSpaces(_)
CollapseSpaces(t) ==
    IF t = <<>> THEN <<>>
    ELSE LET run == SpaceRun(t, 1)
         IN  IF run >= 2
             THEN <<" ">> \o CollapseSpaces(SubSeq(t, run + 1, Len(t)))
             ELSE <<t[1]>> \o CollapseSpaces(Tail(t))

WhitespaceCollapseFirst(t) == Strip(SubHyphens(CollapseSpaces(t)))

\* lines 339-341
Whitespace(t) == Strip(CollapseSpaces(SubHyphens(t)))

WsAlphabet == {"-", " ", "\t", "a"}

\* the first call _whitespace(x)
WhitespaceOnce ==
    /\ wpc = "start"
    /\ ws_once' = Whitespace(ws_in)
    /\ wpc' = "once"
    /\ UNCHANGED <<ws_in, ws_twice>>
    /\ UNCHANGED <<parserVars, sentVars, dupVars, colonVars>>

\* the second call, on the result of the first
WhitespaceTwice ==
    /\ wpc = "once"
    /\ ws_twice' = Whitespace(ws_once)
    /\ wpc' = "done"
    /\ UNCHANGED <<ws_in, ws_once>>
    /\ UNCHANGED <<parserVars, sentVars, dupVars, colonVars>>

\* the other functions are not running
InitWhitespace ==
    /\ ws_in \in SeqsUpTo(WsAlphabet, MaxWsLen)
    /\ ws_once = <<>>
    /\ ws_twice = <<>>
    /\ wpc = "start"
    /\ full_list = <<>> /\ i = 0 /\ previous_content = <<>>
    /\ field_previous = Unbound /\ current_entry = EmptyEntry
    /\ df_orig = <<>> /\ pc = "idle" /\ err = "none"
    /\ stash_src = {} /\ entry_src = EmptyEntry /\ df_src = <<>>
    /\ sentences = <<>> /\ si = 0 /\ corrected_sentences = <<>>
    /\ spc = "idle" /\ merges = 0
    /\ dtext_in = <<>> /\ dtext = <<>> /\ dphrases = <<>> /\ dk = 0
    /\ dpc = "idle"
    /\ ct_in = <<>> /\ ct_out = <<>> /\ cpc = "idle"

NextWhitespace == WhitespaceOnce \/ WhitespaceTwice

SpecWhitespace == InitWhitespace /\ [][NextWhitespace]_vars

\* C7: normalizing the whitespace of an already normalized text changes
\* nothing: _whitespace(_whitespace(x)) = _whitespace(x).
C7_WhitespaceIdempotent == wpc = "done" => ws_twice = ws_once

\* a text with a double hyphen next to whitespace, which the first call
\* changed into a text with an inner space, has been normalized twice
C7_Witness ==
    /\ wpc = "done"
    /\ ws_once # ws_in
    /\ \E n \in DOMAIN ws_once : ws_once[n] = " "
    /\ \E n \in 1..(Len(ws_in) - 2) :
           ws_in[n] = "-" /\ ws_in[n + 1] = "-" /\ IsSpace(ws_in[n + 2])


(***************************************************************************)
(* _remove_uppercase_colon_phrases (utils/cleaning_pipeline.py, lines      *)
(* 276-297): re.sub of ^[A-Z\s,]+: by '', then lstrip.                     *)
(***************************************************************************)
\* [A-Z\s,]
InClass(c) == (\E n \in DOMAIN UpperCase : UpperCase[n] = c) \/ IsSpace(c) \/ c = ","

\* the length of the run of class characters that starts the text
RECURSIVE ClassRun(_)
ClassRun(t) == IF t # <<>> /\ InClass(Head(t)) THEN 1 + ClassRun(Tail(t)) ELSE 0

\* ^[A-Z\s,]+: the length of the match at the start of the text, or 0 when
\* there is none; the run is greedy and gives back what the colon needs
ColonMatchLen(t) ==
    LET ks == {k \in 1..ClassRun(t) : k + 1 <= Len(t) /\ t[k + 1] = ":"}
    IN  IF ks = {} THEN 0 ELSE 1 + CHOOSE k \in ks : \A m \in ks : m <= k

RemoveWithoutLStrip(t) == SubSeq(t, ColonMatchLen(t) + 1, Len(t))

\* line 295: re.sub(pattern, '', text).lstrip(); the pattern is anchored at
\* the start of the text, so it matches at most once
RemoveUppercaseColonPhrases(t) == LStrip(SubSeq(t, ColonMatchLen(t) + 1, Len(t)))

ColonAlphabet == {"A", "a", " ", ",", ":"}
T_RESULTS_UPPER == <<"R","E","S","U","L","T","S",":"," ","t","h","e"," ","t","r","i","a","l"," ","s","u","c","c","e","e","d","e","d">>
T_RESULTS_LOWER == <<"r","e","s","u","l","t","s",":"," ","t","h","e"," ","t","r","i","a","l"," ","s","u","c","c","e","e","d","e","d">>
T_TRIAL == <<"t","h","e"," ","t","r","i","a","l"," ","s","u","c","c","e","e","d","e","d">>

ColonInputs ==
    SeqsUpTo(ColonAlphabet, MaxColonLen) \cup {T_RESULTS_UPPER, T_RESULTS_LOWER}

\* the call _remove_uppercase_colon_phrases(text)
RemoveColonPhrase ==
    /\ cpc = "start"
    /\ ct_out' = RemoveUppercaseColonPhrases(ct_in)
    /\ cpc' = "done"
    /\ UNCHANGED ct_in
    /\ UNCHANGED <<parserVars, sentVars, dupVars, wsVars>>

\* the other functions are not running
InitColon ==
    /\ ct_in \in ColonInputs
    /\ ct_out = <<>>
    /\ cpc = "start"
    /\ full_list = <<>> /\ i = 0 /\ previous_content = <<>>
    /\ field_previous = Unbound /\ current_entry = EmptyEntry
    /\ df_orig = <<>> /\ pc = "idle" /\ err = "none"
    /\ stash_src = {} /\ entry_src = EmptyEntry /\ df_src = <<>>
    /\ sentences = <<>> /\ si = 0 /\ corrected_sentences = <<>>
    /\ spc = "idle" /\ merges = 0
    /\ dtext_in = <<>> /\ dtext = <<>> /\ dphrases = <<>> /\ dk = 0
    /\ dpc = "idle"
    /\ ws_in = <<>> /\ ws_once = <<>> /\ ws_twice = <<>> /\ wpc = "idle"

NextColon == RemoveColonPhrase

SpecColon == InitColon /\ [][NextColon]_vars

\* the text begins with a non-empty run of uppercase letters, whitespace
\* and commas that a colon follows at position c
HasUpperPrefix(t, c) ==
    /\ c \in 2..Len(t)
    /\ t[c] = ":"
    /\ \A n \in 1..(c - 1) :
           \/ t[n] \in {UpperCase[m] : m \in DOMAIN UpperCase}
           \/ t[n] \in {" ", "\t", ","}

\* the text after position c, without the whitespace it begins with
RECURSIVE AfterPrefix(_, _)
AfterPrefix(t, c) ==
    IF c < Len(t) /\ t[c + 1] \in {" ", "\t"}
    THEN AfterPrefix(t, c + 1)
    ELSE SubSeq(t, c + 1, Len(t))

RECURSIVE Flatten(_)
Flatten(ss) == IF ss = <<>> THEN <<>> ELSE Head(ss) \o Flatten(Tail(ss))

\* the first n sentences, each trimmed
TrimmedPrefix(n) == [k \in 1..n |-> Strip(sentences[k])]

\* the number of input sentences the output accounts for: those before the
\* loop index, and all of them once the function has returned
Consumed == IF spc = "done" THEN Len(sentences) ELSE si

====
